---------------------------- MODULE Spec2Model ----------------------------
(***************************************************************************)
(* Model of the job scheduler of paperwork (frontend/jobs.py), of the     *)
(* jobs of the scan window (frontend/mainwindow/scan.py) and of the PDF    *)
(* writer (backend/img/pdfgray.py).                                        *)
(*                                                                         *)
(* Seven parts, each with a specification of its own:                      *)
(*  - Spec, LiveSpec: the JobScheduler (below); credit counts, per job,    *)
(*    the accepted add() calls that no do() has answered yet;              *)
(*  - SpecFactory: the id counters of the job factories;                   *)
(*  - SpecOCR, LiveSpecOCR: JobOCR.do, which runs one thread per angle,    *)
(*    at most cpu_count() at a time, and emits the angle with the best     *)
(*    score;                                                               *)
(*  - SpecScore: _ImgOCRThread.run, which scores one angle;                *)
(*  - SpecScan: JobScan.do and JobScan.stop;                               *)
(*  - SpecFlow: ScanWorkflow.scan_and_ocr and the 'scan-done' signal;      *)
(*  - SpecPdf: write_gray_pdf.                                             *)
(* A specification leaves the variables of the other parts as they are     *)
(* after construction.                                                     *)
(*                                                                         *)
(* One JobScheduler is modelled: its fields (running, _thread, _job_queue, *)
(* _active_job, the lock and the waiters of _job_queue_cond), the worker   *)
(* threads created by start() with their position in _run(), and two       *)
(* caller threads with their position in add(), cancel(), cancel_all(),    *)
(* start() and stop().                                                     *)
(*                                                                         *)
(* Reading of the source:                                                  *)
(*  - jobs.py names three library members that do not exist under that     *)
(*    name: Threading (threading.Thread), heapq.push (heapq.heappush) and  *)
(*    self._new_job_cond (the only condition of the class,                 *)
(*    self._job_queue_cond).  They are read as the member in parentheses.  *)
(*    JobFactory.__init__ likewise names itertools.counter                 *)
(*    (itertools.count), and the signature of JobFactory.make does not     *)
(*    parse: the make() of the two subclasses in scan.py is what runs.     *)
(*  - JobScan.stop calls self._stop_wait(), which no class defines: the    *)
(*    call either raises AttributeError or returns.                        *)
(*  - ScanWorkflow calls schedule(job) on its schedulers: read as add().   *)
(*  - logger calls are not modelled.                                       *)
(*  - everything else is translated as written, Python 2 semantics:        *)
(*    the exceptions a statement raises are outcomes of the call.          *)
(*  - start() and stop() are issued by the thread that owns the scheduler  *)
(*    (the Gtk thread); add/cancel/cancel_all by any caller.               *)
(***************************************************************************)
EXTENDS Integers, Sequences, FiniteSets, TLC

\* ------------------------------------------------------------------ bounds
NJobs == 3
MaxStarts == 2
\* number of jobs made by the factories
MaxMade == 6
\* JobOCR: number of angles of one job, cpu_count(), highest score
MaxAngles == 4
MaxCpu == 2
MaxScore == 2
\* _ImgOCRThread: highest score that a scoring method returns
MaxGuess == 3
\* JobScan: number of read() calls that a scan takes before its end
MaxReads == 3
\* ScanWorkflow: number of scan_and_ocr() calls
MaxCalls == 4
\* write_gray_pdf: number of pages
MaxPages == 3

Jobs == 1..NJobs
Threads == 1..MaxStarts
Callers == {"gtk", "aux"}
Factories == {"Scan", "OCR"}

\* None, for the fields that hold a job or a thread
None == 0

\* ------------------------------------------------------- jobs and factories
\* The two job classes of the application: odd jobs are JobScan instances,
\* even jobs are JobOCR instances.
Factory(j) == IF j % 2 = 1 THEN "Scan" ELSE "OCR"

\* mainwindow/scan.py: JobScan.priority = 10, JobOCR.priority = 5
priority(j) == IF Factory(j) = "Scan" THEN 10 ELSE 5

\* mainwindow/scan.py: JobScan.can_stop = True, JobOCR.can_stop = False
can_stop(j) == Factory(j) = "Scan"

\* Job.__cmp__ with the operands swapped, as heapq's x < y sees it:
\* x < y  iff  cmp(y.priority, x.priority) < 0
Lt_Unreversed(x, y) == priority(x) < priority(y)
Lt(x, y) == priority(y) < priority(x)

\* ------------------------------------------------------------------- heapq
Swap(h, i, k) == [h EXCEPT ![i] = h[k], ![k] = h[i]]

\* heapq._siftdown(heap, startpos, pos), positions counted from 1
RECURSIVE siftdown(_, _, _)
siftdown(h, startpos, pos) ==
    IF pos > startpos /\ Lt(h[pos], h[pos \div 2])
    THEN siftdown(Swap(h, pos, pos \div 2), startpos, pos \div 2)
    ELSE h

\* the first loop of heapq._siftup: bubble the smaller child up to a leaf
RECURSIVE bubble(_, _)
bubble(h, pos) ==
    LET childpos == 2 * pos
        rightpos == childpos + 1
        c == IF rightpos <= Len(h) /\ ~Lt(h[childpos], h[rightpos])
             THEN rightpos ELSE childpos
    IN IF childpos <= Len(h)
       THEN bubble(Swap(h, pos, c), c)
       ELSE <<h, pos>>

\* heapq._siftup(heap, pos)
siftup(h, pos) ==
    LET b == bubble(h, pos) IN siftdown(b[1], pos, b[2])

\* heapq.heappush(heap, item)
heappush(h, item) == siftdown(Append(h, item), 1, Len(h) + 1)

\* heapq.heappop(heap): <<returned item, heap afterwards>>
heappop_Keep(h) == <<h[1], h>>
heappop(h) ==
    LET lastelt == h[Len(h)]
        rest == SubSeq(h, 1, Len(h) - 1)
    IN IF Len(rest) > 0
       THEN <<rest[1], siftup([rest EXCEPT ![1] = lastelt], 1)>>
       ELSE <<lastelt, rest>>

\* job in self._job_queue (Job.__eq__ is identity)
InQueue(q, j) == \E i \in 1..Len(q) : q[i] = j

\* list.remove(job): removes the first element equal to job
RemoveFirst(q, j) ==
    LET i == CHOOSE k \in 1..Len(q) : q[k] = j /\ \A m \in 1..(k-1) : q[m] # j
    IN SubSeq(q, 1, i - 1) \o SubSeq(q, i + 1, Len(q))

SeqRange(q) == {q[i] : i \in 1..Len(q)}


\* ------------------------------------------------------------------- state
VARIABLES
    running,      \* JobScheduler.running
    thread,       \* JobScheduler._thread: None or the worker thread
    queue,        \* JobScheduler._job_queue: the heap, as a list
    active,       \* JobScheduler._active_job: None or a job
    lock,         \* owner of the lock of JobScheduler._job_queue_cond
    wpc,          \* position of each worker thread in _run()
    wjob,         \* the job whose do() a worker thread is executing
    cpc,          \* position of each caller in the method it called
    cop,          \* the call a caller is in, with its arguments
    cres,         \* how the call of a caller ended, until it has returned
    cstop,        \* the job whose stop() the call of a caller has invoked
    stoppedQueue, \* the jobs that were queued when stop() cleared running
    doingAtStop,  \* the job whose do() was executing when stop() cleared
                  \* running
    activeAtLock, \* the active slot when stop() examined it under the lock
    credit        \* per job: the add() calls that put it into the queue,
                  \* less the times its do() was entered and the times it
                  \* was replaced in the active slot before that

vars == <<running, thread, queue, active, lock, wpc, wjob, cpc, cop, cres,
          cstop, stoppedQueue, doingAtStop, activeAtLock, credit>>

hist == <<cstop, stoppedQueue, doingAtStop, activeAtLock>>

\* JobFactory (jobs.py) with the make() of its subclasses (scan.py)
VARIABLES
    id_generator, \* JobFactory.id_generator: the next value of each counter
    made          \* the jobs made so far, in order: factory and id

factoryVars == <<id_generator, made>>

\* JobOCR.do (scan.py) and its _ImgOCRThread threads.  The angles of a job
\* are numbered 1..n in the order in which self.imgs.popitem() hands them
\* out: that order is fixed for a given dict.
VARIABLES
    thread_score, \* input: the score that the thread of each angle ends with
    max_threads,  \* input: multiprocessing.cpu_count()
    imgs,         \* self.imgs: the angles not started yet
    threads,      \* the list `threads`, each thread named by its angle
    alive,        \* the threads for which is_alive() holds
    scores,       \* the list `scores`: (thread.score, thread.angle)
    epc,          \* position in do()
    idx,          \* position of `for thread in threads` in the list
    started,      \* number of thread.start() per angle
    ocr_score,    \* number of 'ocr-score' signals emitted per angle
    ocr_done,     \* number of 'ocr-done' signals emitted
    winner,       \* the angle that 'ocr-done' carried
    run,          \* 1: first job; 2: a second job over the same input
    firstScores,  \* the angles in the order the first job collected them
    firstWinner,  \* the angle that the first job's 'ocr-done' carried
    collected     \* the angles in the order this job collected them

ocrVars == <<thread_score, max_threads, imgs, threads, alive, scores, epc, idx,
             started, ocr_score, ocr_done, winner, run, firstScores,
             firstWinner, collected>>

\* _ImgOCRThread (scan.py): one thread, seen from the inside
VARIABLES
    ocr_raises,    \* input: ocr_tool.image_to_string or __boxes_to_txt raises
    spell_checker, \* input: what check_spelling does with the text
    lucky_guess,   \* input: what the count of 4-letter words does with it
    tpc,           \* position in run()
    si,            \* position of `for score_method in SCORE_METHODS`
    self_score,    \* self.score
    boxes,         \* self.boxes
    tried          \* the scoring methods called so far, in order

scoreVars == <<ocr_raises, spell_checker, lucky_guess, tpc, si, self_score,
               boxes, tried>>

\* JobScan (scan.py): one job, from the moment the worker has put it into
\* the active slot, and the thread that calls its stop()
VARIABLES
    reads_left,   \* input: the read() calls that return before EOFError
    can_run,      \* self.can_run
    spc,          \* position in do()
    events,       \* the signals emitted, in order
    canceled,     \* scan_session.scan.cancel() has been called
    stop_before,  \* stop() has been called before do() was entered
    stop_during   \* stop() has been called since do() was entered

scanVars == <<reads_left, can_run, spc, events, canceled, stop_before,
              stop_during>>

\* ScanWorkflow (scan.py), seen from the Gtk thread, in which its methods
\* and the handlers of its signals run
VARIABLES
    start_ocr,  \* the _ScanOcrChainer.__start_ocr handlers connected to the
                \* signal 'scan-done' of the workflow
    scan_jobs,  \* the scan jobs scheduled that have not ended yet
    flow        \* per scan that has ended, in order: whether 'scan-done'
                \* carried an image, and the OCR jobs scheduled on it

flowVars == <<start_ocr, scan_jobs, flow>>

\* write_gray_pdf (pdfgray.py)
VARIABLES
    pages,           \* the argument: per page the size of its image and the
                     \* lengths of its JPEG and of its compressed pixels
    wpos,            \* where write_gray_pdf is
    stream,               \* the PDFStream: objects, ofs, and what was written
    page_no,               \* the index of the page being written
    catalog_number,
    pages_number,
    info_number,
    xref_offset

pdfVars == <<pages, wpos, stream, page_no, catalog_number, pages_number, info_number,
             xref_offset>>

\* the variables of the parts that the scheduler does not touch
others == <<factoryVars, ocrVars, scoreVars, scanVars, flowVars, pdfVars>>

allvars == <<vars, others>>

\* owners of the (reentrant) lock
Free == [k |-> "free", w |-> 0, c |-> ""]
WOwner(t) == [k |-> "worker", w |-> t, c |-> ""]
COwner(c) == [k |-> "caller", w |-> 0, c |-> c]

NoCall == [name |-> "none", job |-> None, factory |-> ""]
Call(n, j, f) == [name |-> n, job |-> j, factory |-> f]

\* JobScheduler.__init__
InitScheduler ==
    /\ running = FALSE
    /\ thread = None
    /\ queue = <<>>
    /\ active = None
    /\ lock = Free
    /\ wpc = [t \in Threads |-> "unborn"]
    /\ wjob = [t \in Threads |-> None]
    /\ cpc = [c \in Callers |-> "idle"]
    /\ cop = [c \in Callers |-> NoCall]
    /\ cres = [c \in Callers |-> "none"]
    /\ cstop = [c \in Callers |-> None]
    /\ stoppedQueue = {}
    /\ doingAtStop = None
    /\ activeAtLock = None
    /\ credit = [j \in Jobs |-> 0]

\* JobFactory.__init__: self.id_generator counts from 0
InitFactory ==
    /\ id_generator = [f \in Factories |-> 0]
    /\ made = <<>>

\* the scores a thread can end with: -1 is the score it is created with
ScoreValues == (-1)..MaxScore

Angles == DOMAIN thread_score

\* JobOCR.__init__ for n angles, and the inputs of its do()
NewJobOCR(sc, m) ==
    /\ thread_score = sc
    /\ max_threads = m
    /\ imgs = DOMAIN sc
    /\ threads = <<>>
    /\ alive = {}
    /\ scores = <<>>
    /\ epc = "new"
    /\ idx = 1
    /\ started = [v \in DOMAIN sc |-> 0]
    /\ ocr_score = [v \in DOMAIN sc |-> 0]
    /\ ocr_done = 0
    /\ winner = None
    /\ run = 1
    /\ firstScores = <<>>
    /\ firstWinner = None
    /\ collected = <<>>

\* no JobOCR has been made
InitNoOCR ==
    /\ thread_score = <<>>
    /\ max_threads = 1
    /\ imgs = {}
    /\ threads = <<>>
    /\ alive = {}
    /\ scores = <<>>
    /\ epc = "none"
    /\ idx = 1
    /\ started = <<>>
    /\ ocr_score = <<>>
    /\ ocr_done = 0
    /\ winner = None
    /\ run = 1
    /\ firstScores = <<>>
    /\ firstWinner = None
    /\ collected = <<>>

\* what a call of a scoring method does: it raises, or it returns
\* (txt, score); the score of an outcome that raises stands for nothing
Raises == [raises |-> TRUE, score |-> -1]
Returns(n) == [raises |-> FALSE, score |-> n]
Outcomes == {Raises} \cup {Returns(n) : n \in 0..MaxGuess}

\* _ImgOCRThread.__init__, and what the calls of its run() will do
NewThread(o, sp, lg) ==
    /\ ocr_raises = o
    /\ spell_checker = sp
    /\ lucky_guess = lg
    /\ tpc = "new"
    /\ si = 1
    /\ self_score = -1
    /\ boxes = "None"
    /\ tried = <<>>

\* no _ImgOCRThread is looked at
InitNoThread ==
    /\ ocr_raises = FALSE
    /\ spell_checker = Raises
    /\ lucky_guess = Raises
    /\ tpc = "none"
    /\ si = 1
    /\ self_score = -1
    /\ boxes = "None"
    /\ tried = <<>>

\* JobScan.__init__ (self.can_run = False), for a scan of n reads
NewJobScan(n) ==
    /\ reads_left = n
    /\ can_run = FALSE
    /\ spc = "slot"
    /\ events = <<>>
    /\ canceled = FALSE
    /\ stop_before = FALSE
    /\ stop_during = FALSE

\* no JobScan is looked at
InitNoScan ==
    /\ reads_left = 0
    /\ can_run = FALSE
    /\ spc = "none"
    /\ events = <<>>
    /\ canceled = FALSE
    /\ stop_before = FALSE
    /\ stop_during = FALSE

\* ScanWorkflow.__init__: nothing is connected, nothing is scheduled
InitFlow ==
    /\ start_ocr = 0
    /\ scan_jobs = 0
    /\ flow = <<>>

\* write_gray_pdf has not been called
InitNoPdf ==
    /\ pages = <<>>
    /\ wpos = "none"
    /\ stream = [objects |-> <<>>, ofs |-> 0, out |-> <<>>]
    /\ page_no = 0
    /\ catalog_number = 0
    /\ pages_number = 0
    /\ info_number = 0
    /\ xref_offset = 0

\* the state after construction
Init ==
    /\ InitScheduler
    /\ InitFactory
    /\ InitNoOCR
    /\ InitNoThread
    /\ InitNoScan
    /\ InitFlow
    /\ InitNoPdf

\* Condition.notify_all(): every thread waiting on the condition is woken
\* and has to take the lock again before it goes on
NotifiedW == [t \in Threads |-> IF wpc[t] = "waiting" THEN "woken" ELSE wpc[t]]
NotifiedC == [c \in Callers |->
                 IF cpc[c] = "cancel_waiting" THEN "cancel_woken" ELSE cpc[c]]

\* ------------------------------------------------ the worker thread: _run()
\* while self.running:
WorkerLoop(t) ==
    /\ wpc[t] = "loop"
    /\ wpc' = [wpc EXCEPT ![t] = IF running THEN "acquire" ELSE "exited"]
    /\ UNCHANGED <<running, thread, queue, active, lock, wjob, cpc, cop, cres,
                   hist>>
    /\ UNCHANGED credit
    /\ UNCHANGED others

\* self._job_queue_cond.acquire()
WorkerAcquire(t) ==
    /\ wpc[t] = "acquire"
    /\ lock = Free
    /\ lock' = WOwner(t)
    /\ wpc' = [wpc EXCEPT ![t] = "locked"]
    /\ UNCHANGED <<running, thread, queue, active, wjob, cpc, cop, cres, hist>>
    /\ UNCHANGED credit
    /\ UNCHANGED others

\* while len(self._job_queue) <= 0: wait()   (wait releases the lock)
\* self._active_job = heapq.heappop(self._job_queue); release()
\* A job that a worker left in the active slot when it exited at the first
\* test of running is replaced here: its do() will not be entered.
WorkerLocked_NoRelease(t) ==
    /\ wpc[t] = "locked"
    /\ IF Len(queue) <= 0
       THEN /\ wpc' = [wpc EXCEPT ![t] = "waiting"]
            /\ lock' = Free
            /\ UNCHANGED <<queue, active, credit>>
       ELSE /\ active' = heappop(queue)[1]
            /\ queue' = heappop(queue)[2]
            /\ wpc' = [wpc EXCEPT ![t] = "check1"]
            /\ credit' = IF active = None THEN credit
                         ELSE [credit EXCEPT ![active] = @ - 1]
            /\ UNCHANGED lock
    /\ UNCHANGED <<running, thread, wjob, cpc, cop, cres, hist>>
    /\ UNCHANGED others
WorkerLocked(t) ==
    /\ wpc[t] = "locked"
    /\ IF Len(queue) <= 0
       THEN /\ wpc' = [wpc EXCEPT ![t] = "waiting"]
            /\ UNCHANGED <<queue, active, credit>>
       ELSE /\ active' = heappop(queue)[1]
            /\ queue' = heappop(queue)[2]
            /\ wpc' = [wpc EXCEPT ![t] = "check1"]
            /\ credit' = IF active = None THEN credit
                         ELSE [credit EXCEPT ![active] = @ - 1]
    /\ lock' = Free
    /\ UNCHANGED <<running, thread, wjob, cpc, cop, cres, hist>>
    /\ UNCHANGED others

\* wait() returns: the notified thread takes the lock again
WorkerWake(t) ==
    /\ wpc[t] = "woken"
    /\ lock = Free
    /\ lock' = WOwner(t)
    /\ wpc' = [wpc EXCEPT ![t] = "after_wait"]
    /\ UNCHANGED <<running, thread, queue, active, wjob, cpc, cop, cres, hist>>
    /\ UNCHANGED credit
    /\ UNCHANGED others

\* if not self.running: return     (inside the try: finally releases)
WorkerAfterWait(t) ==
    /\ wpc[t] = "after_wait"
    /\ IF ~running
       THEN /\ wpc' = [wpc EXCEPT ![t] = "exited"]
            /\ lock' = Free
       ELSE /\ wpc' = [wpc EXCEPT ![t] = "locked"]
            /\ UNCHANGED lock
    /\ UNCHANGED <<running, thread, queue, active, wjob, cpc, cop, cres, hist>>
    /\ UNCHANGED credit
    /\ UNCHANGED others

\* if not self.running: return     (after the job was taken)
WorkerCheck1_NoCheck(t) ==
    /\ wpc[t] = "check1"
    /\ wpc' = [wpc EXCEPT ![t] = "call_do"]
    /\ UNCHANGED <<running, thread, queue, active, lock, wjob, cpc, cop, cres,
                   hist>>
    /\ UNCHANGED credit
    /\ UNCHANGED others
WorkerCheck1(t) ==
    /\ wpc[t] = "check1"
    /\ wpc' = [wpc EXCEPT ![t] = IF ~running THEN "exited" ELSE "call_do"]
    /\ UNCHANGED <<running, thread, queue, active, lock, wjob, cpc, cop, cres,
                   hist>>
    /\ UNCHANGED credit
    /\ UNCHANGED others

\* assert(self._active_job is not None); self._active_job.do() is entered
WorkerCallDo(t) ==
    /\ wpc[t] = "call_do"
    /\ active # None
    /\ wjob' = [wjob EXCEPT ![t] = active]
    /\ credit' = [credit EXCEPT ![active] = @ - 1]
    /\ wpc' = [wpc EXCEPT ![t] = "doing"]
    /\ UNCHANGED <<running, thread, queue, active, lock, cpc, cop, cres, hist>>
    /\ UNCHANGED others

\* do() returns
WorkerDoReturn(t) ==
    /\ wpc[t] = "doing"
    /\ wjob' = [wjob EXCEPT ![t] = None]
    /\ wpc' = [wpc EXCEPT ![t] = "clear"]
    /\ UNCHANGED <<running, thread, queue, active, lock, cpc, cop, cres, hist>>
    /\ UNCHANGED credit
    /\ UNCHANGED others

\* do() raises an Exception: control goes to the except clause
WorkerDoRaise_Propagates(t) ==
    /\ wpc[t] = "doing"
    /\ wjob' = [wjob EXCEPT ![t] = None]
    /\ wpc' = [wpc EXCEPT ![t] = "exited"]
    /\ UNCHANGED <<running, thread, queue, active, lock, cpc, cop, cres, hist>>
    /\ UNCHANGED credit
    /\ UNCHANGED others
WorkerDoRaise(t) ==
    /\ wpc[t] = "doing"
    /\ wjob' = [wjob EXCEPT ![t] = None]
    /\ wpc' = [wpc EXCEPT ![t] = "caught"]
    /\ UNCHANGED <<running, thread, queue, active, lock, cpc, cop, cres, hist>>
    /\ UNCHANGED credit
    /\ UNCHANGED others

\* except Exception, exc: the exception is logged and dropped
WorkerCaught(t) ==
    /\ wpc[t] = "caught"
    /\ wpc' = [wpc EXCEPT ![t] = "clear"]
    /\ UNCHANGED <<running, thread, queue, active, lock, wjob, cpc, cop, cres,
                   hist>>
    /\ UNCHANGED credit
    /\ UNCHANGED others

\* self._job_queue_cond.acquire()   (after the job)
WorkerClearAcquire(t) ==
    /\ wpc[t] = "clear"
    /\ lock = Free
    /\ lock' = WOwner(t)
    /\ wpc' = [wpc EXCEPT ![t] = "clearing"]
    /\ UNCHANGED <<running, thread, queue, active, wjob, cpc, cop, cres, hist>>
    /\ UNCHANGED credit
    /\ UNCHANGED others

\* self._active_job = None; notify_all(); release()
WorkerClear(t) ==
    /\ wpc[t] = "clearing"
    /\ active' = None
    /\ wpc' = [NotifiedW EXCEPT ![t] = "check2"]
    /\ cpc' = NotifiedC
    /\ lock' = Free
    /\ UNCHANGED <<running, thread, queue, wjob, cop, cres, hist>>
    /\ UNCHANGED credit
    /\ UNCHANGED others

\* if not self.running: return     (end of the loop body)
WorkerCheck2(t) ==
    /\ wpc[t] = "check2"
    /\ wpc' = [wpc EXCEPT ![t] = IF ~running THEN "exited" ELSE "loop"]
    /\ UNCHANGED <<running, thread, queue, active, lock, wjob, cpc, cop, cres,
                   hist>>
    /\ UNCHANGED credit
    /\ UNCHANGED others

Worker(t) ==
    \/ WorkerLoop(t)
    \/ WorkerAcquire(t)
    \/ WorkerLocked(t)
    \/ WorkerWake(t)
    \/ WorkerAfterWait(t)
    \/ WorkerCheck1(t)
    \/ WorkerCallDo(t)
    \/ WorkerDoReturn(t)
    \/ WorkerDoRaise(t)
    \/ WorkerCaught(t)
    \/ WorkerClearAcquire(t)
    \/ WorkerClear(t)
    \/ WorkerCheck2(t)


\* ----------------------------------------------------------------- start()
\* the next thread object that threading.Thread(target=self._run) creates
NextThread == CHOOSE t \in Threads :
                  wpc[t] = "unborn" /\ \A u \in Threads : u < t => wpc[u] # "unborn"

Start_NoThreadAssert(c) ==
    /\ c = "gtk"
    /\ cpc[c] = "idle"
    /\ cop' = [cop EXCEPT ![c] = Call("start", None, "")]
    /\ cpc' = [cpc EXCEPT ![c] = "done"]
    /\ IF running
       THEN /\ cres' = [cres EXCEPT ![c] = "AssertionError"]
            /\ UNCHANGED <<running, thread, wpc, stoppedQueue>>
       ELSE /\ \E t \in Threads : wpc[t] = "unborn"
            /\ thread' = NextThread
            /\ running' = TRUE
            /\ wpc' = [wpc EXCEPT ![NextThread] = "loop"]
            /\ stoppedQueue' = {}
            /\ cres' = [cres EXCEPT ![c] = "ok"]
    /\ UNCHANGED <<queue, active, lock, wjob, cstop, doingAtStop,
                   activeAtLock>>
    /\ UNCHANGED credit
    /\ UNCHANGED others
Start_NoAssert(c) ==
    /\ c = "gtk"
    /\ cpc[c] = "idle"
    /\ \E t \in Threads : wpc[t] = "unborn"
    /\ thread' = NextThread
    /\ running' = TRUE
    /\ wpc' = [wpc EXCEPT ![NextThread] = "loop"]
    /\ stoppedQueue' = {}
    /\ cop' = [cop EXCEPT ![c] = Call("start", None, "")]
    /\ cres' = [cres EXCEPT ![c] = "ok"]
    /\ cpc' = [cpc EXCEPT ![c] = "done"]
    /\ UNCHANGED <<queue, active, lock, wjob, cstop, doingAtStop,
                   activeAtLock>>
    /\ UNCHANGED credit
    /\ UNCHANGED others
\* assert(not self.running); assert(self._thread is None);
\* self._thread = Thread(target=self._run); self.running = True; start()
Start(c) ==
    /\ c = "gtk"
    /\ cpc[c] = "idle"
    /\ cop' = [cop EXCEPT ![c] = Call("start", None, "")]
    /\ cpc' = [cpc EXCEPT ![c] = "done"]
    /\ IF running \/ thread # None
       THEN /\ cres' = [cres EXCEPT ![c] = "AssertionError"]
            /\ UNCHANGED <<running, thread, wpc, stoppedQueue>>
       ELSE /\ \E t \in Threads : wpc[t] = "unborn"
            /\ thread' = NextThread
            /\ running' = TRUE
            /\ wpc' = [wpc EXCEPT ![NextThread] = "loop"]
            /\ stoppedQueue' = {}
            /\ cres' = [cres EXCEPT ![c] = "ok"]
    /\ UNCHANGED <<queue, active, lock, wjob, cstop, doingAtStop,
                   activeAtLock>>
    /\ UNCHANGED credit
    /\ UNCHANGED others

\* ------------------------------------------------------------------- add()
\* self._job_queue_cond.acquire()
AddAcquire(c, j) ==
    /\ cpc[c] = "idle"
    /\ lock = Free
    /\ lock' = COwner(c)
    /\ cpc' = [cpc EXCEPT ![c] = "add_locked"]
    /\ cop' = [cop EXCEPT ![c] = Call("add", j, "")]
    /\ UNCHANGED <<running, thread, queue, active, wpc, wjob, cres, hist>>
    /\ UNCHANGED credit
    /\ UNCHANGED others

\* if (job in self._job_queue or job == self._active_job)
IsDuplicate_Never(j) == FALSE
IsDuplicate(j) == InQueue(queue, j) \/ j = active

\* duplicate: release(), then raise JobException (the finally is AddFinally);
\* otherwise heappush, notify_all(), and the finally releases
AddLocked_NoNotify(c) ==
    /\ cpc[c] = "add_locked"
    /\ IF IsDuplicate(cop[c].job)
       THEN /\ cpc' = [cpc EXCEPT ![c] = "add_raise"]
            /\ UNCHANGED <<queue, cres, credit>>
       ELSE /\ queue' = heappush(queue, cop[c].job)
            /\ cpc' = [cpc EXCEPT ![c] = "done"]
            /\ cres' = [cres EXCEPT ![c] = "ok"]
            /\ credit' = [credit EXCEPT ![cop[c].job] = @ + 1]
    /\ lock' = Free
    /\ UNCHANGED <<running, thread, active, wpc, wjob, cop, hist>>
    /\ UNCHANGED others
AddLocked(c) ==
    /\ cpc[c] = "add_locked"
    /\ IF IsDuplicate(cop[c].job)
       THEN /\ cpc' = [cpc EXCEPT ![c] = "add_raise"]
            /\ UNCHANGED <<queue, wpc, cres, credit>>
       ELSE /\ queue' = heappush(queue, cop[c].job)
            /\ wpc' = NotifiedW
            /\ cpc' = [NotifiedC EXCEPT ![c] = "done"]
            /\ cres' = [cres EXCEPT ![c] = "ok"]
            /\ credit' = [credit EXCEPT ![cop[c].job] = @ + 1]
    /\ lock' = Free
    /\ UNCHANGED <<running, thread, active, wjob, cop, hist>>
    /\ UNCHANGED others

\* the finally of add() while JobException propagates: release() a second
\* time.  RLock.release() by a thread that does not own the lock raises
\* RuntimeError, which replaces the exception in flight.
AddFinally(c) ==
    /\ cpc[c] = "add_raise"
    /\ IF lock = COwner(c)
       THEN /\ lock' = Free
            /\ cres' = [cres EXCEPT ![c] = "JobException"]
       ELSE /\ UNCHANGED lock
            /\ cres' = [cres EXCEPT ![c] = "RuntimeError"]
    /\ cpc' = [cpc EXCEPT ![c] = "done"]
    /\ UNCHANGED <<running, thread, queue, active, wpc, wjob, cop, hist>>
    /\ UNCHANGED credit
    /\ UNCHANGED others

\* ------------------------------------- cancel(), cancel_all() and the rest
\* The predicate that cancel() passes: lambda job: (job == target_job),
\* applied to an object x of the given kind ("job", "factory" or "none").
\* Job.__eq__ and JobFactory.__eq__ are identity.
CondCancel(target, kind, x) ==
    IF kind = "job" /\ x = target THEN "true" ELSE "false"

\* The predicate that cancel_all() passes:
\* lambda job: (job.factory == factory).  Only a job has .factory.
CondCancelAll(f, kind, x) ==
    IF kind = "job"
    THEN (IF Factory(x) = f THEN "true" ELSE "false")
    ELSE "AttributeError"

\* condition(x) for the call a caller is in
Condition(call, kind, x) ==
    IF call.name = "cancel"
    THEN CondCancel(call.job, kind, x)
    ELSE CondCancelAll(call.factory, kind, x)

\* for job in self._job_queue:
\*     if condition(job.factory): self._job_queue.remove(job)
\* The list iterator is an index into the list that is being modified.
\* Result: the queue, the value of the local variable job (None: unbound)
\* and the exception that ended the loop.
RECURSIVE CancelLoop(_, _, _, _)
CancelLoop(q, i, call, last) ==
    IF i > Len(q)
    THEN [q |-> q, job |-> last, err |-> "ok"]
    ELSE LET job == q[i]
             r == Condition(call, "factory", Factory(job))
         IN IF r = "AttributeError"
            THEN [q |-> q, job |-> job, err |-> "AttributeError"]
            ELSE IF r = "true"
                 THEN CancelLoop(RemoveFirst(q, job), i + 1, call, job)
                 ELSE CancelLoop(q, i + 1, call, job)

\* condition(self._active_job)
ConditionActive(call) ==
    IF active = None
    THEN Condition(call, "none", None)
    ELSE Condition(call, "job", active)

\* self._job_queue_cond.acquire() in cancel_matching_jobs, called by cancel()
CancelAcquire(c, j) ==
    /\ cpc[c] = "idle"
    /\ lock = Free
    /\ lock' = COwner(c)
    /\ cpc' = [cpc EXCEPT ![c] = "cancel_locked"]
    /\ cop' = [cop EXCEPT ![c] = Call("cancel", j, "")]
    /\ UNCHANGED <<running, thread, queue, active, wpc, wjob, cres, hist>>
    /\ UNCHANGED credit
    /\ UNCHANGED others

\* the same, called by cancel_all()
CancelAllAcquire(c, f) ==
    /\ cpc[c] = "idle"
    /\ lock = Free
    /\ lock' = COwner(c)
    /\ cpc' = [cpc EXCEPT ![c] = "cancel_locked"]
    /\ cop' = [cop EXCEPT ![c] = Call("cancel_all", None, f)]
    /\ UNCHANGED <<running, thread, queue, active, wpc, wjob, cres, hist>>
    /\ UNCHANGED credit
    /\ UNCHANGED others

\* the body of cancel_matching_jobs under the lock, up to wait() or to the
\* finally that releases the lock
CancelLocked(c) ==
    /\ cpc[c] = "cancel_locked"
    /\ LET r == CancelLoop(queue, 1, cop[c], None)
           a == IF r.err = "ok" THEN ConditionActive(cop[c]) ELSE r.err
       IN /\ queue' = r.q
          /\ IF a = "false"
             THEN /\ cpc' = [cpc EXCEPT ![c] = "done"]
                  /\ cres' = [cres EXCEPT ![c] = "ok"]
                  /\ UNCHANGED cstop
             ELSE IF a = "AttributeError"
             THEN /\ cpc' = [cpc EXCEPT ![c] = "done"]
                  /\ cres' = [cres EXCEPT ![c] = "AttributeError"]
                  /\ UNCHANGED cstop
             ELSE IF r.job = None
             THEN \* if job.can_stop: the loop never bound job
                  /\ cpc' = [cpc EXCEPT ![c] = "done"]
                  /\ cres' = [cres EXCEPT ![c] = "UnboundLocalError"]
                  /\ UNCHANGED cstop
             ELSE \* job.stop() if job.can_stop, then wait()
                  /\ cstop' = IF can_stop(r.job)
                              THEN [cstop EXCEPT ![c] = r.job]
                              ELSE cstop
                  /\ cpc' = [cpc EXCEPT ![c] = "cancel_waiting"]
                  /\ UNCHANGED cres
    /\ lock' = Free
    /\ UNCHANGED <<running, thread, active, wpc, wjob, cop, stoppedQueue,
                   doingAtStop, activeAtLock>>
    /\ UNCHANGED credit
    /\ UNCHANGED others

\* wait() returns once notified and the lock is taken again; the finally
\* releases it
CancelWake(c) ==
    /\ cpc[c] = "cancel_woken"
    /\ lock = Free
    /\ cpc' = [cpc EXCEPT ![c] = "done"]
    /\ cres' = [cres EXCEPT ![c] = "ok"]
    /\ UNCHANGED <<running, thread, queue, active, lock, wpc, wjob, cop, hist>>
    /\ UNCHANGED credit
    /\ UNCHANGED others

\* ------------------------------------------------------------------ stop()
\* assert(self.running); assert(self._thread is not None);
\* self.running = False
StopBegin(c) ==
    /\ c = "gtk"
    /\ cpc[c] = "idle"
    /\ cop' = [cop EXCEPT ![c] = Call("stop", None, "")]
    /\ IF ~running \/ thread = None
       THEN /\ cres' = [cres EXCEPT ![c] = "AssertionError"]
            /\ cpc' = [cpc EXCEPT ![c] = "done"]
            /\ UNCHANGED <<running, hist>>
       ELSE /\ running' = FALSE
            /\ cpc' = [cpc EXCEPT ![c] = "stop_acquire"]
            /\ stoppedQueue' = SeqRange(queue)
            /\ doingAtStop' =
                  IF \E t \in Threads : wpc[t] = "doing" /\ wjob[t] = active
                  THEN active ELSE None
            /\ UNCHANGED <<cres, cstop, activeAtLock>>
    /\ UNCHANGED <<thread, queue, active, lock, wpc, wjob>>
    /\ UNCHANGED credit
    /\ UNCHANGED others

\* self._job_queue_cond.acquire()
StopAcquire(c) ==
    /\ cpc[c] = "stop_acquire"
    /\ lock = Free
    /\ lock' = COwner(c)
    /\ cpc' = [cpc EXCEPT ![c] = "stop_locked"]
    /\ UNCHANGED <<running, thread, queue, active, wpc, wjob, cop, cres, hist>>
    /\ UNCHANGED credit
    /\ UNCHANGED others

\* if self._active_job is not None: self._active_job.stop()
\* self._job_queue_cond.notify_all(); release()
\* Job.stop() of a job that cannot stop raises NotImplementedError.
StopLocked_NoStop(c) ==
    /\ cpc[c] = "stop_locked"
    /\ activeAtLock' = active
    /\ wpc' = NotifiedW
    /\ cpc' = [NotifiedC EXCEPT ![c] = "stop_join"]
    /\ lock' = Free
    /\ UNCHANGED <<running, thread, queue, active, wjob, cop, cres, cstop,
                   stoppedQueue, doingAtStop>>
    /\ UNCHANGED credit
    /\ UNCHANGED others
StopLocked(c) ==
    /\ cpc[c] = "stop_locked"
    /\ activeAtLock' = active
    /\ IF active # None
       THEN /\ cstop' = [cstop EXCEPT ![c] = active]
            /\ IF can_stop(active)
               THEN /\ wpc' = NotifiedW
                    /\ cpc' = [NotifiedC EXCEPT ![c] = "stop_join"]
                    /\ UNCHANGED cres
               ELSE /\ cpc' = [cpc EXCEPT ![c] = "done"]
                    /\ cres' = [cres EXCEPT ![c] = "NotImplementedError"]
                    /\ UNCHANGED wpc
       ELSE /\ wpc' = NotifiedW
            /\ cpc' = [NotifiedC EXCEPT ![c] = "stop_join"]
            /\ UNCHANGED <<cres, cstop>>
    /\ lock' = Free
    /\ UNCHANGED <<running, thread, queue, active, wjob, cop, stoppedQueue,
                   doingAtStop>>
    /\ UNCHANGED credit
    /\ UNCHANGED others

\* self._thread.join(); self._thread = None
StopJoin(c) ==
    /\ cpc[c] = "stop_join"
    /\ wpc[thread] = "exited"
    /\ thread' = None
    /\ cpc' = [cpc EXCEPT ![c] = "done"]
    /\ cres' = [cres EXCEPT ![c] = "ok"]
    /\ UNCHANGED <<running, queue, active, lock, wpc, wjob, cop, hist>>
    /\ UNCHANGED credit
    /\ UNCHANGED others

\* the call returns, or its exception reaches the caller
Return(c) ==
    /\ cpc[c] = "done"
    /\ cpc' = [cpc EXCEPT ![c] = "idle"]
    /\ cop' = [cop EXCEPT ![c] = NoCall]
    /\ cres' = [cres EXCEPT ![c] = "none"]
    /\ cstop' = [cstop EXCEPT ![c] = None]
    /\ doingAtStop' = IF cop[c].name = "stop" THEN None ELSE doingAtStop
    /\ activeAtLock' = IF cop[c].name = "stop" THEN None ELSE activeAtLock
    /\ UNCHANGED <<running, thread, queue, active, lock, wpc, wjob,
                   stoppedQueue>>
    /\ UNCHANGED credit
    /\ UNCHANGED others

\* ------------------------------------------------------------ specification
Caller(c) ==
    \/ Start(c)
    \/ \E j \in Jobs : AddAcquire(c, j)
    \/ AddLocked(c)
    \/ AddFinally(c)
    \/ \E j \in Jobs : CancelAcquire(c, j)
    \/ \E f \in Factories : CancelAllAcquire(c, f)
    \/ CancelLocked(c)
    \/ CancelWake(c)
    \/ StopBegin(c)
    \/ StopAcquire(c)
    \/ StopLocked(c)
    \/ StopJoin(c)
    \/ Return(c)

Next ==
    \/ \E t \in Threads : Worker(t)
    \/ \E c \in Callers : Caller(c)

Spec == Init /\ [][Next]_vars

\* ------------------------------------------------------------ JobFactory
\* JobFactoryScan.make, JobFactoryOCR.make: the job gets
\* next(self.id_generator), the counter of the factory that makes it
Make_NoNext(f) ==
    /\ Len(made) < MaxMade
    /\ made' = Append(made, [factory |-> f, id |-> id_generator[f]])
    /\ UNCHANGED id_generator
    /\ UNCHANGED <<vars, ocrVars, scoreVars, scanVars, flowVars, pdfVars>>

Make(f) ==
    /\ Len(made) < MaxMade
    /\ made' = Append(made, [factory |-> f, id |-> id_generator[f]])
    /\ id_generator' = [id_generator EXCEPT ![f] = @ + 1]
    /\ UNCHANGED <<vars, ocrVars, scoreVars, scanVars, flowVars, pdfVars>>

NextFactory == \E f \in Factories : Make(f)

SpecFactory == Init /\ [][NextFactory]_allvars

\* ---------------------------------------------------------------- JobOCR
\* threads.remove(thread): what is left of the list s once its i-th
\* element is removed
RemoveAt_Keep(s, i) == s

RemoveAt(s, i) == SubSeq(s, 1, i - 1) \o SubSeq(s, i + 1, Len(s))

\* cmp=lambda x, y: cmp(y[0], x[0]) is negative: x goes before y
Before_Ascending(x, y) == x.score < y.score

Before(x, y) == y.score < x.score

\* list.sort is stable: an element goes behind the elements it is not
\* Before, so elements that compare equal keep their order
RECURSIVE Insert(_, _)
Insert(s, x) ==
    IF s = <<>> THEN <<x>>
    ELSE IF Before(x, Head(s)) THEN <<x>> \o s
    ELSE <<Head(s)>> \o Insert(Tail(s), x)

RECURSIVE InsertAll(_, _)
InsertAll(sorted, s) ==
    IF s = <<>> THEN sorted ELSE InsertAll(Insert(sorted, Head(s)), Tail(s))

sort_NoSort(s) == s

sort(s) == InsertAll(<<>>, s)

\* do(), up to the loop: threads = [], scores = []
OcrDo ==
    /\ epc = "new"
    /\ epc' = "while"
    /\ UNCHANGED <<thread_score, max_threads, imgs, threads, alive, scores, idx,
                   started, ocr_score, ocr_done, winner, run, firstScores,
                   firstWinner, collected>>
    /\ UNCHANGED <<vars, factoryVars, scoreVars, scanVars, flowVars, pdfVars>>

\* while (len(self.imgs) > 0 or len(threads) > 0), reached the first time
\* and after each time.sleep()
OcrWhile_And ==
    /\ epc = "while"
    /\ IF imgs # {} /\ Len(threads) > 0
          THEN epc' = "for" /\ idx' = 1
          ELSE epc' = "sort" /\ UNCHANGED idx
    /\ UNCHANGED <<thread_score, max_threads, imgs, threads, alive, scores,
                   started, ocr_score, ocr_done, winner, run, firstScores,
                   firstWinner, collected>>
    /\ UNCHANGED <<vars, factoryVars, scoreVars, scanVars, flowVars, pdfVars>>

OcrWhile ==
    /\ epc = "while"
    /\ IF imgs # {} \/ Len(threads) > 0
          THEN epc' = "for" /\ idx' = 1
          ELSE epc' = "sort" /\ UNCHANGED idx
    /\ UNCHANGED <<thread_score, max_threads, imgs, threads, alive, scores,
                   started, ocr_score, ocr_done, winner, run, firstScores,
                   firstWinner, collected>>
    /\ UNCHANGED <<vars, factoryVars, scoreVars, scanVars, flowVars, pdfVars>>

\* one turn of `for thread in threads`: the iterator hands out the element
\* at its position and moves on by one, whatever the body did to the list
OcrFor ==
    /\ epc = "for"
    /\ IF idx > Len(threads)
          THEN /\ epc' = "start"
               /\ UNCHANGED <<threads, scores, ocr_score, idx, collected>>
          ELSE /\ idx' = idx + 1
               /\ UNCHANGED epc
               /\ IF threads[idx] \notin alive
                     THEN /\ threads' = RemoveAt(threads, idx)
                          /\ scores' = Append(scores,
                                 [score |-> thread_score[threads[idx]],
                                  angle |-> threads[idx]])
                          /\ ocr_score' = [ocr_score EXCEPT ![threads[idx]] = @ + 1]
                          /\ collected' = Append(collected, threads[idx])
                     ELSE UNCHANGED <<threads, scores, ocr_score, collected>>
    /\ UNCHANGED <<thread_score, max_threads, imgs, alive, started, ocr_done,
                   winner, run, firstScores, firstWinner>>
    /\ UNCHANGED <<vars, factoryVars, scoreVars, scanVars, flowVars, pdfVars>>

\* the angle that self.imgs.popitem() hands out
PopItem == CHOOSE v \in imgs : \A w \in imgs : v <= w

\* mutation: one thread more than max_threads
OcrStart_OneMore ==
    /\ epc = "start"
    /\ IF Len(threads) <= max_threads /\ imgs # {}
          THEN /\ imgs' = imgs \ {PopItem}
               /\ alive' = alive \cup {PopItem}
               /\ threads' = Append(threads, PopItem)
               /\ started' = [started EXCEPT ![PopItem] = @ + 1]
               /\ UNCHANGED epc
          ELSE /\ epc' = "while"
               /\ UNCHANGED <<imgs, alive, threads, started>>
    /\ UNCHANGED <<thread_score, max_threads, scores, idx, ocr_score, ocr_done,
                   winner, run, firstScores, firstWinner, collected>>
    /\ UNCHANGED <<vars, factoryVars, scoreVars, scanVars, flowVars, pdfVars>>

\* one turn of while (len(threads) < max_threads and len(self.imgs) > 0);
\* when the test fails: time.sleep() and back to the outer test
OcrStart ==
    /\ epc = "start"
    /\ IF Len(threads) < max_threads /\ imgs # {}
          THEN /\ imgs' = imgs \ {PopItem}
               /\ alive' = alive \cup {PopItem}
               /\ threads' = Append(threads, PopItem)
               /\ started' = [started EXCEPT ![PopItem] = @ + 1]
               /\ UNCHANGED epc
          ELSE /\ epc' = "while"
               /\ UNCHANGED <<imgs, alive, threads, started>>
    /\ UNCHANGED <<thread_score, max_threads, scores, idx, ocr_score, ocr_done,
                   winner, run, firstScores, firstWinner, collected>>
    /\ UNCHANGED <<vars, factoryVars, scoreVars, scanVars, flowVars, pdfVars>>

\* scores.sort(...); self.emit('ocr-done', scores[0][1], ...)
OcrSort ==
    /\ epc = "sort"
    /\ scores' = sort(scores)
    /\ IF Len(scores) = 0
          THEN /\ epc' = "IndexError"
               /\ UNCHANGED <<ocr_done, winner>>
          ELSE /\ epc' = "done"
               /\ ocr_done' = ocr_done + 1
               /\ winner' = sort(scores)[1].angle
    /\ UNCHANGED <<thread_score, max_threads, imgs, threads, alive, idx,
                   started, ocr_score, run, firstScores, firstWinner, collected>>
    /\ UNCHANGED <<vars, factoryVars, scoreVars, scanVars, flowVars, pdfVars>>

\* _ImgOCRThread.run ends, by return or by an exception
ThreadEnd(v) ==
    /\ v \in alive
    /\ alive' = alive \ {v}
    /\ UNCHANGED <<thread_score, max_threads, imgs, threads, scores, epc, idx,
                   started, ocr_score, ocr_done, winner, run, firstScores,
                   firstWinner, collected>>
    /\ UNCHANGED <<vars, factoryVars, scoreVars, scanVars, flowVars, pdfVars>>
\* JobFactoryOCR.make and do() once more, over the same image and angles:
\* a second job whose threads end with the same scores
OcrAgain ==
    /\ epc = "done"
    /\ run = 1
    /\ run' = 2
    /\ firstScores' = collected
    /\ firstWinner' = winner
    /\ imgs' = Angles
    /\ threads' = <<>>
    /\ alive' = {}
    /\ scores' = <<>>
    /\ collected' = <<>>
    /\ epc' = "new"
    /\ idx' = 1
    /\ started' = [v \in Angles |-> 0]
    /\ ocr_score' = [v \in Angles |-> 0]
    /\ ocr_done' = 0
    /\ winner' = None
    /\ UNCHANGED <<thread_score, max_threads>>
    /\ UNCHANGED <<vars, factoryVars, scoreVars, scanVars, flowVars, pdfVars>>

\* a JobOCR over 1..MaxAngles angles on a machine with 1..MaxCpu processors
InitOCR ==
    /\ InitScheduler
    /\ InitFactory
    /\ InitFlow
    /\ InitNoPdf
    /\ InitNoScan
    /\ InitNoThread
    /\ \E n \in 1..MaxAngles : \E sc \in [1..n -> ScoreValues] :
       \E m \in 1..MaxCpu : NewJobOCR(sc, m)

NextOCR ==
    \/ OcrDo
    \/ OcrWhile
    \/ OcrFor
    \/ OcrStart
    \/ OcrSort
    \/ OcrAgain
    \/ \E v \in Angles : ThreadEnd(v)

SpecOCR == InitOCR /\ [][NextOCR]_allvars

\* One run of do(), for termination.  The tests of the loop do not read the
\* scores, so every thread ends with the score 0 here.  The steps of do()
\* go on, and every thread that was started ends.
InitOCRLive ==
    /\ InitScheduler
    /\ InitFactory
    /\ InitFlow
    /\ InitNoPdf
    /\ InitNoScan
    /\ InitNoThread
    /\ \E n \in 1..MaxAngles : \E m \in 1..MaxCpu :
          NewJobOCR([v \in 1..n |-> 0], m)

OcrStep ==
    \/ OcrDo
    \/ OcrWhile
    \/ OcrFor
    \/ OcrStart
    \/ OcrSort

NextOCRLive ==
    \/ OcrStep
    \/ \E v \in Angles : ThreadEnd(v)

LiveSpecOCR ==
    /\ InitOCRLive
    /\ [][NextOCRLive]_allvars
    /\ WF_allvars(OcrStep)
    /\ \A v \in 1..MaxAngles : WF_allvars(ThreadEnd(v))

\* --------------------------------------------------------- _ImgOCRThread
\* SCORE_METHODS of run(), in the order of the list
SCORE_METHODS == <<"spell_checker", "lucky_guess", "no_score">>

\* what score_method[1](txt) does; the third is lambda txt: (txt, 0)
Outcome(m) ==
    CASE m = "spell_checker" -> spell_checker
      [] m = "lucky_guess" -> lucky_guess
      [] m = "no_score" -> Returns(0)

\* run() up to the loop: image_to_string and __boxes_to_txt; an exception
\* here is caught by nobody and ends the thread
ThreadOcr ==
    /\ tpc = "new"
    /\ IF ocr_raises
          THEN tpc' = "died" /\ UNCHANGED boxes
          ELSE tpc' = "for" /\ boxes' = "boxes"
    /\ UNCHANGED <<ocr_raises, spell_checker, lucky_guess, si, self_score, tried>>
    /\ UNCHANGED <<vars, factoryVars, ocrVars, scanVars, flowVars, pdfVars>>

\* mutation: an exception of a scoring method is not caught
ThreadScore_NoExcept ==
    /\ tpc = "for"
    /\ tried' = Append(tried, SCORE_METHODS[si])
    /\ IF Outcome(SCORE_METHODS[si]).raises
          THEN tpc' = "died" /\ UNCHANGED <<si, self_score>>
          ELSE /\ self_score' = Outcome(SCORE_METHODS[si]).score
               /\ tpc' = "returned"
               /\ UNCHANGED si
    /\ UNCHANGED <<ocr_raises, spell_checker, lucky_guess, boxes>>
    /\ UNCHANGED <<vars, factoryVars, ocrVars, scanVars, flowVars, pdfVars>>

\* one turn of `for score_method in SCORE_METHODS`: the call in the try
\* block, then return, or except Exception and the next turn
ThreadScore ==
    /\ tpc = "for"
    /\ tried' = Append(tried, SCORE_METHODS[si])
    /\ IF Outcome(SCORE_METHODS[si]).raises
          THEN /\ si' = si + 1
               /\ tpc' = IF si = Len(SCORE_METHODS) THEN "returned" ELSE "for"
               /\ UNCHANGED self_score
          ELSE /\ self_score' = Outcome(SCORE_METHODS[si]).score
               /\ tpc' = "returned"
               /\ UNCHANGED si
    /\ UNCHANGED <<ocr_raises, spell_checker, lucky_guess, boxes>>
    /\ UNCHANGED <<vars, factoryVars, ocrVars, scanVars, flowVars, pdfVars>>

\* an _ImgOCRThread, for every way its calls can go
InitScore ==
    /\ InitScheduler
    /\ InitFactory
    /\ InitFlow
    /\ InitNoPdf
    /\ InitNoScan
    /\ InitNoOCR
    /\ \E o \in BOOLEAN : \E sp, lg \in Outcomes : NewThread(o, sp, lg)

NextScore ==
    \/ ThreadOcr
    \/ ThreadScore

SpecScore == InitScore /\ [][NextScore]_allvars

\* --------------------------------------------------------------- JobScan
\* The scan session is the driver's: read() returns, or raises EOFError at
\* the end of the scan, or fails with another exception; what it does once
\* cancel() has been called is the driver's choice among these.
\* stop() calls self._stop_wait(), which the Job class of jobs.py does not
\* have: the call raises AttributeError and cancel() is not reached, or,
\* with a Job class that has it, returns and cancel() is called.

\* stop(): self.can_run = False; self._stop_wait(); scan.cancel()
ScanStop ==
    /\ spc \notin {"none", "returned", "raised"}
    /\ can_run' = FALSE
    /\ \E reached \in BOOLEAN : canceled' = (canceled \/ reached)
    /\ IF spc = "slot"
          THEN stop_before' = TRUE /\ UNCHANGED stop_during
          ELSE stop_during' = TRUE /\ UNCHANGED stop_before
    /\ UNCHANGED <<reads_left, spc, events>>
    /\ UNCHANGED <<vars, factoryVars, ocrVars, scoreVars, flowVars, pdfVars>>

\* mutation: do() does not set the flag
ScanDo_KeepFlag ==
    /\ spc = "slot"
    /\ spc' = "started"
    /\ UNCHANGED <<reads_left, can_run, events, canceled, stop_before, stop_during>>
    /\ UNCHANGED <<vars, factoryVars, ocrVars, scoreVars, flowVars, pdfVars>>

\* do() is entered: self.can_run = True
ScanDo ==
    /\ spc = "slot"
    /\ can_run' = TRUE
    /\ spc' = "started"
    /\ UNCHANGED <<reads_left, events, canceled, stop_before, stop_during>>
    /\ UNCHANGED <<vars, factoryVars, ocrVars, scoreVars, flowVars, pdfVars>>

\* self.emit('scan-started'); then self.emit('scan-info', ...)
ScanEmitStart ==
    /\ spc \in {"started", "info"}
    /\ events' = Append(events, IF spc = "started" THEN "scan-started"
                                                   ELSE "scan-info")
    /\ spc' = IF spc = "started" THEN "info" ELSE "test"
    /\ UNCHANGED <<reads_left, can_run, canceled, stop_before, stop_during>>
    /\ UNCHANGED <<vars, factoryVars, ocrVars, scoreVars, flowVars, pdfVars>>

\* while self.can_run:
ScanTest ==
    /\ spc = "test"
    /\ spc' = IF can_run THEN "read" ELSE "after"
    /\ UNCHANGED <<reads_left, can_run, events, canceled, stop_before, stop_during>>
    /\ UNCHANGED <<vars, factoryVars, ocrVars, scoreVars, flowVars, pdfVars>>

\* self.scan_session.scan.read() returns; a chunk is emitted if it brought
\* new lines (next_line > last_line)
ScanRead ==
    /\ spc = "read"
    /\ reads_left > 0
    /\ reads_left' = reads_left - 1
    /\ \E new_lines \in BOOLEAN :
          events' = IF new_lines THEN Append(events, "scan-chunk") ELSE events
    /\ spc' = "test"
    /\ UNCHANGED <<can_run, canceled, stop_before, stop_during>>
    /\ UNCHANGED <<vars, factoryVars, ocrVars, scoreVars, flowVars, pdfVars>>

\* read() raises EOFError: except EOFError: pass
ScanEOF ==
    /\ spc = "read"
    /\ reads_left = 0 \/ canceled
    /\ spc' = "eof"
    /\ UNCHANGED <<reads_left, can_run, events, canceled, stop_before, stop_during>>
    /\ UNCHANGED <<vars, factoryVars, ocrVars, scoreVars, flowVars, pdfVars>>

\* read() raises another exception, which leaves do()
ScanFail ==
    /\ spc = "read"
    /\ spc' = "raised"
    /\ UNCHANGED <<reads_left, can_run, events, canceled, stop_before, stop_during>>
    /\ UNCHANGED <<vars, factoryVars, ocrVars, scoreVars, flowVars, pdfVars>>

\* the loop was left by its test: if not self.can_run: emit
\* 'scan-canceled' and return
ScanAfter ==
    /\ spc = "after"
    /\ IF ~can_run
          THEN /\ events' = Append(events, "scan-canceled")
               /\ spc' = "returned"
          ELSE /\ spc' = "eof"
               /\ UNCHANGED events
    /\ UNCHANGED <<reads_left, can_run, canceled, stop_before, stop_during>>
    /\ UNCHANGED <<vars, factoryVars, ocrVars, scoreVars, flowVars, pdfVars>>

\* img = self.scan_session.images[-1]; self.emit('scan-done', img)
ScanDone ==
    /\ spc = "eof"
    /\ events' = Append(events, "scan-done")
    /\ spc' = "returned"
    /\ UNCHANGED <<reads_left, can_run, canceled, stop_before, stop_during>>
    /\ UNCHANGED <<vars, factoryVars, ocrVars, scoreVars, flowVars, pdfVars>>

\* a JobScan in the active slot, for scans of 0..MaxReads reads
InitScan ==
    /\ InitScheduler
    /\ InitFactory
    /\ InitFlow
    /\ InitNoPdf
    /\ InitNoOCR
    /\ InitNoThread
    /\ \E n \in 0..MaxReads : NewJobScan(n)

NextScan ==
    \/ ScanStop
    \/ ScanDo
    \/ ScanEmitStart
    \/ ScanTest
    \/ ScanRead
    \/ ScanEOF
    \/ ScanFail
    \/ ScanAfter
    \/ ScanDone

SpecScan == InitScan /\ [][NextScan]_allvars

\* ---------------------------------------------------------- ScanWorkflow
\* scan_and_ocr(): _ScanOcrChainer(self) connects one more __start_ocr to
\* 'scan-done'; self.scan() makes a scan job and schedules it
ScanAndOcr ==
    /\ Len(flow) + scan_jobs < MaxCalls
    /\ start_ocr' = start_ocr + 1
    /\ scan_jobs' = scan_jobs + 1
    /\ UNCHANGED flow
    /\ UNCHANGED <<vars, factoryVars, ocrVars, scoreVars, scanVars, pdfVars>>

\* on_scan_done(img) or on_scan_canceled(): the workflow emits 'scan-done'
\* with the image or with None, and every connected __start_ocr runs: it
\* returns if img is None and calls ocr(img), which makes and schedules
\* one OCR job, otherwise
OnScanEnd(img) ==
    /\ scan_jobs > 0
    /\ scan_jobs' = scan_jobs - 1
    /\ flow' = Append(flow, [img |-> img, ocr |-> IF img THEN start_ocr ELSE 0])
    /\ UNCHANGED start_ocr
    /\ UNCHANGED <<vars, factoryVars, ocrVars, scoreVars, scanVars, pdfVars>>

NextFlow ==
    \/ ScanAndOcr
    \/ \E img \in BOOLEAN : OnScanEnd(img)

SpecFlow == Init /\ [][NextFlow]_allvars

\* -------------------------------------------------------- write_gray_pdf
\* What one f.write(str) writes is kept as the format, the numbers put in
\* it, and len(str); a format is written here without its final "\n".

\* the number of characters of "%u" % n and of "%d" % n, n >= 0
RECURSIVE Digits(_)
Digits(n) == IF n < 10 THEN 1 ELSE 1 + Digits(n \div 10)

RECURSIVE SumDigits(_)
SumDigits(args) ==
    IF args = <<>> THEN 0 ELSE Digits(Head(args)) + SumDigits(Tail(args))

RECURSIVE SumLen(_)
SumLen(chunks) ==
    IF chunks = <<>> THEN 0 ELSE Head(chunks).len + SumLen(Tail(chunks))

\* a string with no conversion, "\n" at its end
Str(text) == [fmt |-> text, args |-> <<>>, len |-> Len(text) + 1]

\* a format with one "%u" or "%d" per number of args, and nl "\n" at its end
Num(fmt, args, nl) ==
    [fmt |-> fmt, args |-> args,
     len |-> Len(fmt) - (2 * Len(args)) + SumDigits(args) + nl]

\* bytes whose length only is kept
Raw(name, len) == [fmt |-> name, args |-> <<>>, len |-> len]

\* page_width, page_height: size * 72.0 / dpi with dpi = 300, in points;
\* the part before the decimal point
Points(size) == (size * 72) \div 300

\* "/MediaBox [ 0 0 %.2f %.2f ]\n": a "%.2f" writes the digits before the
\* point, the point and two digits
MediaBox(page) ==
    Raw("/MediaBox [ 0 0 %.2f %.2f ]",
        Len("/MediaBox [ 0 0 ") + Digits(Points(page.width)) + 3
        + Len(" ") + Digits(Points(page.height)) + 3 + Len(" ]") + 1)

\* len(command) for "q\n%f 0 0 %f 0 0 cm\n/Im%d Do\nQ": a "%f" writes the
\* digits before the point, the point and six digits
CommandLen(page, n) ==
    Len("q") + 1 + Digits(Points(page.width)) + 7 + Len(" 0 0 ")
    + Digits(Points(page.height)) + 7 + Len(" 0 0 cm") + 1
    + Len("/Im") + Digits(n) + Len(" Do") + 1 + Len("Q")

\* the data of the image: the JPEG if it is shorter than the compressed
\* pixels
Filter(page) == IF page.jpeg < page.flate THEN "DCTDecode" ELSE "FlateDecode"
DataLen(page) == IF page.jpeg < page.flate THEN page.jpeg ELSE page.flate

\* the length of pdfid, "%032x" of a number below 2**128
PdfIdLen == 32

\* PDFStream.write for a sequence of strings
Write(s, chunks) ==
    [s EXCEPT !.out = @ \o chunks, !.ofs = @ + SumLen(chunks)]

\* PDFStream.start_object; the number it returns is Len of the new objects
start_object(s) == [s EXCEPT !.objects = Append(@, s.ofs)]

KidNumber_Two(number, n) == number + 1 + (n * 2)

\* the reference written in /Kids for page n (line 52)
KidNumber(number, n) == number + 1 + (n * 3)

\* the images that pages are made of
Images ==
    { [width |-> 1, height |-> 1, jpeg |-> 300, flate |-> 9],
      [width |-> 50, height |-> 42, jpeg |-> 1000, flate |-> 1000],
      [width |-> 2480, height |-> 3508, jpeg |-> 90000, flate |-> 120000] }

RECURSIVE SeqsUpTo(_, _)
SeqsUpTo(S, n) ==
    IF n = 0 THEN {<<>>}
    ELSE LET shorter == SeqsUpTo(S, n - 1)
         IN  shorter \cup {Append(q, x) : q \in shorter, x \in S}

\* lines 24-33: the header and the binary comment
PdfHeader ==
    /\ wpos = "new"
    /\ stream' = Write(stream, <<Str("%PDF-1.3"), Raw("%binary", 6)>>)
    /\ wpos' = "catalog"
    /\ UNCHANGED <<pages, page_no, catalog_number, pages_number, info_number,
                   xref_offset>>
    /\ UNCHANGED <<vars, factoryVars, ocrVars, scoreVars, scanVars, flowVars>>

\* lines 36-42
PdfCatalog ==
    /\ wpos = "catalog"
    /\ LET s == start_object(stream)
           number == Len(s.objects)
       IN  /\ catalog_number' = number
           /\ stream' = Write(s, << Num("%u 0 obj", <<number>>, 1),
                               Str("<<"),
                               Str("/Type /Catalog"),
                               Num("/Pages %u 0 R", <<number + 1>>, 1),
                               Str(">>"),
                               Str("endobj") >>)
    /\ wpos' = "pages"
    /\ UNCHANGED <<pages, page_no, pages_number, info_number, xref_offset>>
    /\ UNCHANGED <<vars, factoryVars, ocrVars, scoreVars, scanVars, flowVars>>

\* lines 45-56
PdfPages ==
    /\ wpos = "pages"
    /\ LET s == start_object(Write(stream, <<Str("")>>))
           number == Len(s.objects)
           kids == [k \in 1..Len(pages) |->
                       Num(" %u 0 R", <<KidNumber(number, k - 1)>>, 0)]
       IN  /\ pages_number' = number
           /\ stream' = Write(s, << Num("%u 0 obj", <<number>>, 1),
                               Str("<<"),
                               Str("/Type /Pages"),
                               Raw("/Kids [", Len("/Kids [")) >>
                            \o kids
                            \o << Str(" ]"),
                                  Num("/Count %u", <<Len(pages)>>, 1),
                                  Str(">>"),
                                  Str("endobj") >>)
    /\ page_no' = 0
    /\ wpos' = "page"
    /\ UNCHANGED <<pages, catalog_number, info_number, xref_offset>>
    /\ UNCHANGED <<vars, factoryVars, ocrVars, scoreVars, scanVars, flowVars>>

\* lines 58-105: the Page object of page i
PdfPage ==
    /\ wpos = "page"
    /\ page_no < Len(pages)
    /\ LET s == start_object(Write(stream, <<Str("")>>))
           number == Len(s.objects)
       IN  stream' = Write(s, << Num("%u 0 obj", <<number>>, 1),
                            Str("<<"),
                            Str("/Type /Page"),
                            Num("/Parent %u 0 R", <<pages_number>>, 1),
                            Num("/Resources << /XObject << /Im%d %u 0 R >> >>",
                                <<page_no, number + 1>>, 1),
                            MediaBox(pages[page_no + 1]),
                            Num("/Contents %u 0 R", <<number + 2>>, 1),
                            Str(">>"),
                            Str("endobj") >>)
    /\ wpos' = "image"
    /\ UNCHANGED <<pages, page_no, catalog_number, pages_number, info_number,
                   xref_offset>>
    /\ UNCHANGED <<vars, factoryVars, ocrVars, scoreVars, scanVars, flowVars>>

\* lines 108-126: the image of page i
PdfImage ==
    /\ wpos = "image"
    /\ LET s == start_object(Write(stream, <<Str("")>>))
           number == Len(s.objects)
           page == pages[page_no + 1]
       IN  stream' = Write(s, << Num("%u 0 obj", <<number>>, 1),
                            Str("<<"),
                            Str("/Type /XObject"),
                            Str("/Subtype /Image"),
                            Num("/Width %d", <<page.width>>, 1),
                            Num("/Height %d", <<page.height>>, 1),
                            Str("/ColorSpace /DeviceGray"),
                            Num("/BitsPerComponent %d", <<2>>, 1),
                            Num("/Length %d", <<DataLen(page)>>, 1),
                            Str("/Filter /" \o Filter(page)),
                            Str(">>"),
                            Str("stream"),
                            Raw("data", DataLen(page)),
                            Str(""),
                            Str("endstream"),
                            Str("endobj") >>)
    /\ wpos' = "content"
    /\ UNCHANGED <<pages, page_no, catalog_number, pages_number, info_number,
                   xref_offset>>
    /\ UNCHANGED <<vars, factoryVars, ocrVars, scoreVars, scanVars, flowVars>>

\* lines 129-140: the content of page i, and on to the next page
PdfContent ==
    /\ wpos = "content"
    /\ LET s == start_object(Write(stream, <<Str("")>>))
           number == Len(s.objects)
           command == CommandLen(pages[page_no + 1], page_no)
       IN  stream' = Write(s, << Num("%u 0 obj", <<number>>, 1),
                            Str("<<"),
                            Num("/Length %d", <<command>>, 1),
                            Str(">>"),
                            Str("stream"),
                            Raw("command", command),
                            Str(""),
                            Str("endstream"),
                            Str("endobj") >>)
    /\ page_no' = page_no + 1
    /\ wpos' = "page"
    /\ UNCHANGED <<pages, catalog_number, pages_number, info_number,
                   xref_offset>>
    /\ UNCHANGED <<vars, factoryVars, ocrVars, scoreVars, scanVars, flowVars>>

\* lines 143-149, after the last page
PdfInfo ==
    /\ wpos = "page"
    /\ page_no = Len(pages)
    /\ LET s == start_object(Write(stream, <<Str("")>>))
           number == Len(s.objects)
       IN  /\ info_number' = number
           /\ stream' = Write(s, << Num("%u 0 obj", <<number>>, 1),
                               Str("<<"),
                               Str("/Creator (Paperwork)"),
                               Str(">>"),
                               Str("endobj") >>)
    /\ wpos' = "xref"
    /\ UNCHANGED <<pages, page_no, catalog_number, pages_number, xref_offset>>
    /\ UNCHANGED <<vars, factoryVars, ocrVars, scoreVars, scanVars, flowVars>>

\* "%010u 00000 n \n" % ofs: ten characters at least for the offset
XrefEntry(ofs) ==
    [fmt |-> "%010u 00000 n ", args |-> <<ofs>>,
     len |-> (IF Digits(ofs) > 10 THEN Digits(ofs) ELSE 10)
             + Len(" 00000 n ") + 1]

\* lines 152-159
PdfXref ==
    /\ wpos = "xref"
    /\ LET s == Write(stream, <<Str("")>>)
       IN  /\ xref_offset' = s.ofs
           /\ stream' = Write(s, << Str("xref"),
                               Num("0 %u", <<Len(s.objects) + 1>>, 1),
                               Str("0000000000 65535 f ") >>
                            \o [k \in 1..Len(s.objects) |->
                                   XrefEntry(s.objects[k])])
    /\ wpos' = "trailer"
    /\ UNCHANGED <<pages, page_no, catalog_number, pages_number, info_number>>
    /\ UNCHANGED <<vars, factoryVars, ocrVars, scoreVars, scanVars, flowVars>>

\* lines 162-172
PdfTrailer ==
    /\ wpos = "trailer"
    /\ stream' = Write(stream, << Str(""),
                        Str("trailer"),
                        Str("<<"),
                        Num("/Size %u", <<Len(stream.objects) + 1>>, 1),
                        Num("/Info %u 0 R", <<info_number>>, 1),
                        Num("/Root %u 0 R", <<catalog_number>>, 1),
                        Raw("/ID [<%s> <%s>]",
                            Len("/ID [<") + PdfIdLen + Len("> <") + PdfIdLen
                            + Len(">]") + 1),
                        Str("startxref"),
                        Num("%u", <<xref_offset>>, 1),
                        Str("%%EOF") >>)
    /\ wpos' = "done"
    /\ UNCHANGED <<pages, page_no, catalog_number, pages_number, info_number,
                   xref_offset>>
    /\ UNCHANGED <<vars, factoryVars, ocrVars, scoreVars, scanVars, flowVars>>

\* write_gray_pdf(filename, pages) called with 0..MaxPages pages
InitPdf ==
    /\ InitScheduler
    /\ InitFactory
    /\ InitFlow
    /\ InitNoOCR
    /\ InitNoThread
    /\ InitNoScan
    /\ pages \in SeqsUpTo(Images, MaxPages)
    /\ wpos = "new"
    /\ stream = [objects |-> <<>>, ofs |-> 0, out |-> <<>>]
    /\ page_no = 0
    /\ catalog_number = 0
    /\ pages_number = 0
    /\ info_number = 0
    /\ xref_offset = 0

NextPdf ==
    \/ PdfHeader
    \/ PdfCatalog
    \/ PdfPages
    \/ PdfPage
    \/ PdfImage
    \/ PdfContent
    \/ PdfInfo
    \/ PdfXref
    \/ PdfTrailer

SpecPdf == InitPdf /\ [][NextPdf]_allvars

\* Liveness is checked for the calls of one thread, with these assumptions
\* on scheduling: a thread that can take a step outside a lock acquisition
\* eventually takes it (this includes that do() ends), a thread that asks
\* for the lock eventually gets it if the lock is free again and again, and
\* a call in progress goes on.  No caller is obliged to make a new call.
WorkerStep(t) ==
    \/ WorkerLoop(t)
    \/ WorkerLocked(t)
    \/ WorkerAfterWait(t)
    \/ WorkerCheck1(t)
    \/ WorkerCallDo(t)
    \/ WorkerDoReturn(t)
    \/ WorkerDoRaise(t)
    \/ WorkerCaught(t)
    \/ WorkerClear(t)
    \/ WorkerCheck2(t)

WorkerLockStep(t) ==
    \/ WorkerAcquire(t)
    \/ WorkerWake(t)
    \/ WorkerClearAcquire(t)

CallerStep(c) ==
    \/ AddLocked(c)
    \/ AddFinally(c)
    \/ CancelLocked(c)
    \/ StopLocked(c)
    \/ StopJoin(c)

CallerLockStep(c) ==
    \/ StopAcquire(c)
    \/ CancelWake(c)

Fairness ==
    /\ \A t \in Threads : WF_vars(WorkerStep(t)) /\ SF_vars(WorkerLockStep(t))
    /\ \A c \in Callers : WF_vars(CallerStep(c)) /\ SF_vars(CallerLockStep(c))

NextLive ==
    \/ \E t \in Threads : Worker(t)
    \/ Caller("gtk")

LiveSpec == Init /\ [][NextLive]_vars /\ Fairness

TypeOK ==
    /\ running \in BOOLEAN
    /\ thread \in Threads \cup {None}
    /\ SeqRange(queue) \subseteq Jobs
    /\ active \in Jobs \cup {None}
    /\ \A c \in Callers : cstop[c] \in Jobs \cup {None}
    /\ credit \in [Jobs -> Int]

\* ------------------------------------------------------------------ claims
\* steps that the formulas below speak about
DoBegins(t) == wpc[t] = "call_do" /\ wpc'[t] = "doing"
Takes(t) == wpc[t] = "locked" /\ wpc'[t] = "check1"
CancelBodyRuns(c, n) ==
    cpc[c] = "cancel_locked" /\ cop[c].name = n /\ cpc'[c] # "cancel_locked"

\* C1: at most one job's do() is executing at any instant.
C1_AtMostOneDo == Cardinality({t \in Threads : wpc[t] = "doing"}) <= 1

\* C1 witness: a job executes on the worker of a restarted scheduler while
\* another job is queued and a caller is inside add().
C1_Witness ==
    \E t, u \in Threads :
        /\ wpc[t] = "exited"
        /\ wpc[u] = "doing"
        /\ Len(queue) > 0
        /\ \E c \in Callers : cpc[c] = "add_locked"

\* C2: whenever the worker takes a job from the queue into the active slot,
\* no job left in the queue has a strictly higher priority.
C2_PriorityOrder ==
    [][\A t \in Threads :
          Takes(t) =>
             \A i \in 1..Len(queue') : priority(queue'[i]) <= priority(active')
      ]_vars

\* C2 witness: a job was taken while a job of lower priority and a job of
\* the same priority stay queued.
C2_Witness ==
    \E t \in Threads :
        /\ wpc[t] = "check1"
        /\ active # None
        /\ \E i \in 1..Len(queue) : priority(queue[i]) < priority(active)
        /\ \E i \in 1..Len(queue) : priority(queue[i]) = priority(active)

\* C3: add() of a job that is already queued or active fails with JobException
\* and changes nothing: queue and active slot stay as they were and the lock
\* is not left with the caller.
C3_DuplicateAddRaisesJobException ==
    [][\A c \in Callers :
          (\/ cpc[c] = "add_locked" /\ IsDuplicate(cop[c].job)
           \/ cpc[c] = "add_raise")
          => /\ queue' = queue
             /\ active' = active
             /\ cpc'[c] = "done" =>
                   cres'[c] = "JobException" /\ lock' # COwner(c)
      ]_vars

\* C4: a job is never twice in the queue and never both queued and active.
C4_OnePlace ==
    /\ \A i, k \in 1..Len(queue) : queue[i] = queue[k] => i = k
    /\ active = None \/ ~InQueue(queue, active)

\* C4 witness: add() found its job in the active slot while other jobs are
\* queued, and add() found its job in the queue.
C4_Witness ==
    \E c \in Callers :
        /\ cpc[c] = "add_raise"
        /\ Len(queue) > 1
        /\ cop[c].job = active \/ InQueue(queue, cop[c].job)

\* C5: cancel_all(factory) removes every queued job of the factory and no
\* other job; when it returns no job of that factory is queued.
C5_CancelAllRemovesFactory ==
    [][\A c \in Callers :
          CancelBodyRuns(c, "cancel_all") =>
             SeqRange(queue') =
                {j \in SeqRange(queue) : Factory(j) # cop[c].factory}
      ]_vars

\* C6: cancel(job) removes the job from the queue if it is queued, and
\* removes no other job.
C6_CancelRemovesJob ==
    [][\A c \in Callers :
          CancelBodyRuns(c, "cancel") =>
             SeqRange(queue') = SeqRange(queue) \ {cop[c].job}
      ]_vars

StopPastSlot(c) ==
    /\ cop[c].name = "stop"
    /\ \/ cpc[c] = "stop_join"
       \/ cpc[c] = "done" /\ cres[c] = "ok"

\* C8 (as stated): when stop() is called while a job that can stop is
\* active (its do() is executing), stop() invokes that job's stop(), once,
\* before the join.
C8_StopInvokedIfActiveAtCall ==
    \A c \in Callers :
        (StopPastSlot(c) /\ doingAtStop # None /\ can_stop(doingAtStop))
        => cstop[c] = doingAtStop

\* C8 (amended): when stop() finds a job that can stop in the active slot
\* while it holds the lock, it invokes that job's stop(), once, and the
\* invocation is over before the join of the worker thread completes.
C8_StopInvokedIfActiveAtLock ==
    \A c \in Callers :
        (StopPastSlot(c) /\ activeAtLock # None /\ can_stop(activeAtLock))
        => cstop[c] = activeAtLock

\* C8 witness: stop() has joined the worker after it stopped the active job.
C8_Witness ==
    \E c \in Callers :
        /\ cop[c].name = "stop"
        /\ cpc[c] = "done"
        /\ cres[c] = "ok"
        /\ activeAtLock # None
        /\ can_stop(activeAtLock)
        /\ cstop[c] = activeAtLock

\* C9: stop() is never invoked on a job whose can_stop is false, and a
\* stop() of the scheduler that passed its assertions completes normally,
\* also with such a job active.
C9_NeverStopUnstoppable ==
    \A c \in Callers :
        /\ cstop[c] # None => can_stop(cstop[c])
        /\ (cop[c].name = "stop" /\ cpc[c] = "done")
           => cres[c] \in {"ok", "AssertionError"}

\* C10: cancel(C) for a job C that cannot stop and whose do() is executing
\* raises no error (the call goes on to wait for the job),
\* leaves C running and leaves the queue as it was.
C10_CancelUnstoppableActive ==
    [][\A c \in Callers :
          (/\ CancelBodyRuns(c, "cancel")
           /\ cop[c].job = active
           /\ ~can_stop(active)
           /\ \E t \in Threads : wpc[t] = "doing" /\ wjob[t] = active)
          => /\ cpc'[c] = "cancel_waiting"
             /\ queue' = queue
             /\ active' = active
             /\ wjob' = wjob
      ]_vars

\* a worker thread leaves _run()
Exits(t) == wpc[t] # "exited" /\ wpc'[t] = "exited"

\* C11: an error raised by do() does not end the worker loop: the thread
\* goes from the except clause on to clear the active slot, a worker thread
\* leaves _run() only when running is false, and after the error the slot
\* is cleared and a job that is still queued is taken, unless the scheduler
\* is stopped.
C11_ErrorSwallowed ==
    /\ [][\A t \in Threads :
            /\ wpc[t] = "caught" => wpc'[t] \in {"caught", "clear"}
            /\ Exits(t) => ~running
        ]_vars
    /\ \A t \in Threads : (wpc[t] = "caught") ~> (wpc[t] = "check2")
    /\ \A t \in Threads :
          (wpc[t] = "caught" /\ Len(queue) > 0)
             ~> (wpc[t] = "check1" \/ ~running)

\* C11 witness: a do() has raised on a running scheduler while another job
\* is queued.
C11_Witness ==
    \E t \in Threads :
        /\ wpc[t] = "caught"
        /\ running
        /\ Len(queue) > 0
        /\ active # None

\* C12: a cancel that waits for the active job is released only when the
\* active slot has been cleared, so that it returns after do() has returned.
C12_CancelWaitsForClear ==
    [][\A c \in Callers :
          (cpc[c] = "cancel_waiting" /\ cpc'[c] = "cancel_woken")
          => active' = None
      ]_vars

\* the steps of start() and of a stop() that fails its assertions
StartStep == cpc["gtk"] = "idle" /\ cop'["gtk"].name = "start"
StopRefused ==
    cpc["gtk"] = "idle" /\ cop'["gtk"].name = "stop" /\ cpc'["gtk"] = "done"
Alive == {t \in Threads : wpc[t] \notin {"unborn", "exited"}}

\* C13: start() on a running scheduler and stop() on a stopped scheduler
\* fail with an assertion error and change nothing; running changes only in
\* start() and stop(); a successful start() creates exactly one worker
\* thread and two worker threads are never alive at once.
C13_Lifecycle ==
    [][/\ (StartStep /\ running)
          => /\ cres'["gtk"] = "AssertionError"
             /\ UNCHANGED <<running, thread, queue, active, lock, wpc>>
       /\ (StartStep /\ ~running /\ cres'["gtk"] = "ok")
          => /\ running'
             /\ Cardinality({t \in Threads : wpc[t] # wpc'[t]}) = 1
             /\ wpc'[thread'] = "loop"
       /\ (cop'["gtk"].name = "stop" /\ cpc["gtk"] = "idle" /\ ~running)
          => /\ StopRefused
             /\ cres'["gtk"] = "AssertionError"
             /\ UNCHANGED <<running, thread, queue, active, lock, wpc>>
       /\ running' # running
          => \/ StartStep
             \/ cpc["gtk"] = "idle" /\ cop'["gtk"].name = "stop"
       /\ Cardinality({t \in Threads :
                          wpc'[t] \notin {"unborn", "exited"}}) <= 1
      ]_vars

\* C13 witness: a second start() after a stop(): the first worker thread has
\* exited, the second one is alive, and start() is refused while running.
C13_Witness ==
    /\ \E t, u \in Threads : wpc[t] = "exited" /\ u \in Alive
    /\ running
    /\ cop["gtk"].name = "start"
    /\ cres["gtk"] = "AssertionError"

\* C14: a stop() that has cleared running always comes to its end.
C14_StopTerminates ==
    (cpc["gtk"] = "stop_acquire") ~> (cpc["gtk"] = "done")

\* ------------------------------------------------------------------- C15
\* the jobs that a factory made before the i-th job of `made`
MadeBefore(i) == {k \in 1..(i - 1) : made[k].factory = made[i].factory}

\* C15: every job's id is the value of its factory's counter when it was
\* made (the number of jobs the factory made before it), so two jobs of one
\* factory never share an id and the ids of one factory increase strictly
\* in creation order.
C15_FactoryIds ==
    /\ \A i \in 1..Len(made) : made[i].id = Cardinality(MadeBefore(i))
    /\ \A i, k \in 1..Len(made) :
           (i < k /\ made[i].factory = made[k].factory) => made[i].id < made[k].id

\* both factories have made jobs, interleaved, one of them at least three
C15_Witness ==
    /\ Len(made) >= 4
    /\ made[1].factory = made[3].factory
    /\ made[2].factory # made[1].factory
    /\ made[4].factory = made[1].factory
    /\ made[4].id = 2

\* ------------------------------------------------------------------- C16
\* the threads started and not collected yet
InFlight == {v \in Angles : started[v] > ocr_score[v]}

\* C16: at every point of do(), the threads that were started and are not
\* collected yet are at most cpu_count() many, whatever the number of angles
\* and the order in which the threads end.
C16_BoundedInFlight ==
    /\ Cardinality(InFlight) <= max_threads
    /\ alive \subseteq InFlight
    /\ Len(threads) = Cardinality(InFlight)

\* four angles on two processors: two threads in flight, one of them ended
\* and not collected yet, one angle collected and one waiting
C16_Witness ==
    /\ Cardinality(Angles) = 4
    /\ max_threads = 2
    /\ Cardinality(InFlight) = 2
    /\ Cardinality(alive) = 1
    /\ Len(scores) = 1
    /\ Cardinality(imgs) = 1

\* ------------------------------------------------------------------- C17
\* the angles whose score is in the list `scores`
Scored == {scores[i].angle : i \in 1..Len(scores)}

\* C17: when 'ocr-done' is emitted, the list that was sorted holds one
\* entry for every angle of the job, each with the score its thread ended
\* with, and the angle emitted is one whose score is the maximum of them.
C17_WinnerHasMaxScore ==
    epc = "done" =>
        /\ winner \in Angles
        /\ \A v \in Angles : thread_score[v] <= thread_score[winner]
        /\ Scored = Angles
        /\ Len(scores) = Cardinality(Angles)
        /\ \A i \in 1..Len(scores) : scores[i].score = thread_score[scores[i].angle]

\* four angles with four different scores on two processors; the winner was
\* neither started first nor collected first
C17_Witness ==
    /\ epc = "done"
    /\ Cardinality(Angles) = 4
    /\ max_threads = 2
    /\ \A v, w \in Angles : v # w => thread_score[v] # thread_score[w]
    /\ winner # 1
    /\ collected[1] # winner

\* ------------------------------------------------------------------- C18
\* the angles with the highest score of the job
Best == {v \in Angles : \A w \in Angles : thread_score[w] <= thread_score[v]}

\* the first angle of the list s that is one of the Best
FirstBest(s) == s[CHOOSE i \in 1..Len(s) :
                     s[i] \in Best /\ \A k \in 1..(i - 1) : s[k] \notin Best]

\* C18 as stated: a second job over the same angles with the same scores
\* emits the same angle as the first, whatever the order in which the
\* threads of either job end, equal scores included.
C18_SameWinner ==
    (run = 2 /\ epc = "done") => winner = firstWinner

\* C18: a second job over the same angles with the same scores emits the
\* same angle as the first when one angle alone has the highest score; in
\* each job the angle emitted is, of the angles with the highest score, the
\* one that the job collected first.
C18_SameWinnerUnlessTie ==
    /\ epc = "done" => winner = FirstBest(collected)
    /\ (run = 2 /\ epc = "done") =>
          /\ firstWinner = FirstBest(firstScores)
          /\ Cardinality(Best) = 1 => winner = firstWinner

\* two jobs that collected their threads in different orders and emitted
\* the same angle, which neither of them collected first
C18_Witness ==
    /\ run = 2
    /\ epc = "done"
    /\ Cardinality(Best) = 1
    /\ collected # firstScores
    /\ collected[1] # winner
    /\ firstScores[1] # firstWinner
    /\ winner = firstWinner

\* ------------------------------------------------------------------- C19
\* C19: in one job no angle is started or collected twice and 'ocr-done' is
\* emitted at most once; 'ocr-done' is emitted only when every angle has
\* been started once and one 'ocr-score' emitted for it, and when do() has
\* ended 'ocr-done' has been emitted once.
C19_OncePerAngle ==
    /\ \A v \in Angles : started[v] <= 1 /\ ocr_score[v] <= started[v]
    /\ ocr_done <= 1
    /\ ocr_done = 1 => \A v \in Angles : started[v] = 1 /\ ocr_score[v] = 1
    /\ epc = "done" <=> ocr_done = 1
    /\ epc # "IndexError"

\* the job of four angles on two processors has ended; it collected the
\* threads in another order than it started them
C19_Witness ==
    /\ epc = "done"
    /\ ocr_done = 1
    /\ Cardinality(Angles) = 4
    /\ max_threads = 2
    /\ collected # <<1, 2, 3, 4>>
    /\ \A v \in Angles : ocr_score[v] = 1

\* ------------------------------------------------------------------- C20
\* C20: the scoring methods are called in the order spell_checker,
\* lucky_guess, no_score, each only after the one before it raised; run()
\* returns with the score of the first one that did not raise; the thread
\* dies only of the OCR itself, and a thread for which no method gave a
\* score has the score -1 it was created with.
C20_ScoreMethods ==
    /\ Len(tried) <= 3
    /\ tried = SubSeq(<<"spell_checker", "lucky_guess", "no_score">>, 1, Len(tried))
    /\ \A i \in 1..(Len(tried) - 1) : Outcome(tried[i]).raises
    /\ tpc = "for" => \A i \in 1..Len(tried) : Outcome(tried[i]).raises
    /\ tpc = "returned" =>
          /\ tried # <<>>
          /\ ~Outcome(tried[Len(tried)]).raises
          /\ self_score = Outcome(tried[Len(tried)]).score
    /\ tpc = "died" => ocr_raises /\ tried = <<>>
    /\ (\A i \in 1..Len(tried) : Outcome(tried[i]).raises) => self_score = -1

\* the spell checker raised, the count of words gave the score, and
\* no_score was not called
C20_Witness ==
    /\ tpc = "returned"
    /\ spell_checker.raises
    /\ tried = <<"spell_checker", "lucky_guess">>
    /\ self_score = lucky_guess.score
    /\ self_score > 0

\* ------------------------------------------------------------------- C21
\* do() of job j is executing
Doing(j) == \E t \in Threads : wpc[t] = "doing" /\ wjob[t] = j

\* C21: if add() is called only finitely often, then every job that is in
\* the queue of a running scheduler has its do() entered later on, unless
\* the scheduler is stopped before.  (Every do() ends and every thread gets
\* its turn: the assumptions of LiveSpec.)
C21_Dispatch ==
    (<>[](cop["gtk"].name # "add")) =>
        \A j \in Jobs : (InQueue(queue, j) /\ running) ~> (Doing(j) \/ ~running)

\* add() put a job into the queue while the worker was in wait(), and the
\* worker has been notified
C21_Witness ==
    /\ running
    /\ cop["gtk"].name = "add"
    /\ cres["gtk"] = "ok"
    /\ Len(queue) = 1
    /\ active = None
    /\ \E t \in Threads : wpc[t] = "woken"

\* ------------------------------------------------------------------- C22
\* the positions of _run() between the release() after heappop and the
\* acquire() after the job
OutsideLock == {"check1", "call_do", "doing", "caught", "clear"}

\* C22: from the release() that follows heappop to the acquire() that
\* follows the job, do() included, the worker does not own the lock.  While
\* do() is executing, the lock is free or owned by a caller that is in the
\* locked part of its call and can go on; a caller can then enter add() or
\* cancel() as soon as the lock is free, the body of add() can run, and a
\* cancel() of a job that is in the queue returns without wait().
C22_DoOutsideLock ==
    /\ \A t \in Threads : wpc[t] \in OutsideLock => lock # WOwner(t)
    /\ (\E t \in Threads : wpc[t] = "doing") =>
          /\ lock.k # "worker"
          /\ \A c \in Callers :
                /\ lock = COwner(c) =>
                      /\ cpc[c] \in {"add_locked", "cancel_locked", "stop_locked"}
                      /\ ENABLED CallerStep(c)
                /\ (cpc[c] = "idle" /\ lock = Free) =>
                      \A j \in Jobs : /\ ENABLED AddAcquire(c, j)
                                      /\ ENABLED CancelAcquire(c, j)
                /\ cpc[c] = "add_locked" => ENABLED AddLocked(c)
                /\ (cpc[c] = "cancel_locked" /\ cop[c].name = "cancel"
                       /\ InQueue(queue, cop[c].job)) =>
                      ENABLED (CancelLocked(c) /\ cpc'[c] = "done"
                                 /\ cres'[c] = "ok")

\* while do() of a job is executing, one caller has added another job and
\* the other caller is in the body of a cancel() of that job
C22_Witness ==
    /\ \E t \in Threads : wpc[t] = "doing" /\ wjob[t] = 1
    /\ cop["gtk"] = Call("add", 2, "")
    /\ cpc["gtk"] = "done"
    /\ cres["gtk"] = "ok"
    /\ InQueue(queue, 2)
    /\ cop["aux"] = Call("cancel", 2, "")
    /\ cpc["aux"] = "cancel_locked"

\* ------------------------------------------------------------------- C23
\* the body of cancel_matching_jobs runs for a call of caller c
CancelBody(c) == CancelBodyRuns(c, "cancel") \/ CancelBodyRuns(c, "cancel_all")

\* C23: when the body of cancel_matching_jobs invokes stop(), the active
\* slot holds a job that satisfies the predicate and stop() is invoked on
\* that job; and when the body runs while no job is active or while the
\* queue is empty, the call does not end with an exception.
C23_StopGoesToActive ==
    [][\A c \in Callers : CancelBody(c) =>
          /\ cstop'[c] # None =>
                /\ active # None
                /\ Condition(cop[c], "job", active) = "true"
                /\ cstop'[c] = active
          /\ (active = None \/ queue = <<>>) =>
                cres'[c] \in {"none", "ok"} ]_vars

\* ------------------------------------------------------------------- C24
\* C24: at every moment, do() of a job has been entered at most as many
\* times as add() has put the job into the queue; while its do() is
\* executing and after it has returned or raised, the job is not in the
\* queue unless add() has put it there again.
C24_OneDoPerAdd ==
    \A j \in Jobs :
        /\ credit[j] >= 0
        /\ InQueue(queue, j) => credit[j] >= 1

\* do() of job 1 has raised, job 1 had been added once and is not queued;
\* another job waits in the queue
C24_Witness ==
    /\ \E t \in Threads : wpc[t] = "caught"
    /\ active = 1
    /\ credit[1] = 0
    /\ ~InQueue(queue, 1)
    /\ Len(queue) > 0
    /\ running

\* ------------------------------------------------------------------- C25
\* C25: if every thread that is started ends, do() reaches its end, for
\* 1..MaxAngles angles and 1..MaxCpu processors; the loop is left at a test
\* exactly when no angle is left to start and no thread is started and
\* not collected.
C25_EvaluatorTerminates ==
    /\ (epc = "new") ~> (epc = "done")
    /\ [][(epc = "while" /\ epc' # "while") =>
            (epc' = "sort" <=> (imgs = {} /\ InFlight = {}))]_allvars

\* two threads had ended when the poll began: the first has been collected
\* and removed from the list, and the for loop is past the second, which
\* now has the position of the first
C25_Witness ==
    /\ epc = "for"
    /\ max_threads >= 2
    /\ Len(scores) = 1
    /\ Len(threads) = 1
    /\ idx = 2
    /\ alive = {}
    /\ imgs # {}

\* ------------------------------------------------------------------- C26
\* the signal that was emitted last
LastEvent == IF events = <<>> THEN "none" ELSE events[Len(events)]

Emitted(e) == \E i \in 1..Len(events) : events[i] = e

\* C26: if stop() was called at any moment since the job was put into the
\* active slot, before do() was entered or while it was executing, and do()
\* has returned, then do() left its loop by the test of the flag: it
\* emitted 'scan-canceled' and did not emit 'scan-done'.
C26_StopNotLost ==
    (spc = "returned" /\ (stop_before \/ stop_during)) =>
        /\ LastEvent = "scan-canceled"
        /\ ~Emitted("scan-done")

\* ------------------------------------------------------------------- C27
\* the terminal signals among those emitted
Terminal == {i \in 1..Len(events) : events[i] \in {"scan-done", "scan-canceled"}}

\* C27: the first signal of do() is 'scan-started'; at most one of
\* 'scan-done' and 'scan-canceled' is emitted, once, and nothing after it;
\* a do() that has returned has emitted one of them; 'scan-canceled' is
\* emitted only if stop() was called after do() was entered.
C27_ScanEvents ==
    /\ events # <<>> => events[1] = "scan-started"
    /\ \A i \in 2..Len(events) : events[i] # "scan-started"
    /\ Cardinality(Terminal) <= 1
    /\ Terminal \subseteq {Len(events)}
    /\ spc = "returned" => Cardinality(Terminal) = 1
    /\ Emitted("scan-canceled") => stop_during

\* do() has returned after a stop(): two chunks, then 'scan-canceled'
C27_Witness ==
    /\ spc = "returned"
    /\ stop_during
    /\ ~stop_before
    /\ reads_left > 0
    /\ events = <<"scan-started", "scan-info", "scan-chunk", "scan-chunk",
                  "scan-canceled">>

\* ------------------------------------------------------------------- C28
\* C28: while there is no worker thread, before start() and after the
\* join of stop(), the active slot is empty, and add() then refuses no job
\* that is not in the queue.
C28_SlotEmptyWhenStopped ==
    (~running /\ thread = None) =>
        /\ active = None
        /\ \A j \in Jobs : IsDuplicate(j) => InQueue(queue, j)

\* ------------------------------------------------------------------- C29
\* C29: after any number of scan_and_ocr() calls, a scan that ended with an
\* image has had exactly one OCR job scheduled, and a scan that was
\* canceled ('scan-done' with None) has had none.
C29_OneOcrPerScan ==
    \A i \in 1..Len(flow) : flow[i].ocr = IF flow[i].img THEN 1 ELSE 0

\* ------------------------------------------------------------------- C30
\* the bytes of the strings written from the lo-th to the hi-th
RECURSIVE Bytes(_, _)
Bytes(lo, hi) ==
    IF lo > hi THEN 0
    ELSE IF lo = hi THEN stream.out[lo].len
    ELSE LET mid == (lo + hi) \div 2
         IN  Bytes(lo, mid) + Bytes(mid + 1, hi)

\* the byte position in the file of the k-th string written
Pos(k) == Bytes(1, k - 1)

\* the strings written with a format, as their places in the file, in order
Where(fmt) ==
    SelectSeq([k \in 1..Len(stream.out) |-> k], LAMBDA k : stream.out[k].fmt = fmt)

\* the number in the header of the object that the k-th string is part of
ObjOf(k) ==
    LET h == CHOOSE j \in 1..k :
                 /\ stream.out[j].fmt = "%u 0 obj"
                 /\ \A m \in (j + 1)..k : stream.out[m].fmt # "%u 0 obj"
    IN  stream.out[h].args[1]

\* C30: when write_gray_pdf has returned for n pages, the object headers
\* carry the numbers 1, 2, ... 3n + 3 in order; the reference written in
\* /Kids for page p is the number of the object that holds p's /Type /Page;
\* each Page's /Parent is the number of the Pages object, its /Im reference
\* the number of p's image object and its /Contents the number of p's
\* content object; and the cross-reference table has 3n + 3 entries, the
\* j-th being the byte position at which the header of object j starts.
C30_PdfReferences ==
    wpos = "done" =>
        LET n == Len(pages)
            headers == Where("%u 0 obj")
            kids == Where(" %u 0 R")
            pageobjs == Where("/Type /Page")
            images == Where("/Type /XObject")
            contents == Where("command")
            parent == Where("/Parent %u 0 R")
            resources == Where("/Resources << /XObject << /Im%d %u 0 R >> >>")
            content == Where("/Contents %u 0 R")
            xref == Where("%010u 00000 n ")
        IN  /\ Len(headers) = (3 * n) + 3
            /\ \A j \in 1..Len(headers) : stream.out[headers[j]].args[1] = j
            /\ Len(kids) = n /\ Len(pageobjs) = n /\ Len(images) = n
            /\ Len(contents) = n /\ Len(parent) = n /\ Len(resources) = n
            /\ Len(content) = n
            /\ \A p \in 1..n :
                /\ stream.out[kids[p]].args[1] = ObjOf(pageobjs[p])
                /\ ObjOf(parent[p]) = ObjOf(pageobjs[p])
                /\ stream.out[parent[p]].args[1] = ObjOf(Where("/Type /Pages")[1])
                /\ ObjOf(resources[p]) = ObjOf(pageobjs[p])
                /\ stream.out[resources[p]].args = <<p - 1, ObjOf(images[p])>>
                /\ ObjOf(content[p]) = ObjOf(pageobjs[p])
                /\ stream.out[content[p]].args[1] = ObjOf(contents[p])
            /\ Len(xref) = (3 * n) + 3
            /\ \A j \in 1..Len(xref) : stream.out[xref[j]].args[1] = Pos(headers[j])

\* a file of three pages of three sizes has been written
C30_Witness ==
    /\ wpos = "done"
    /\ Len(pages) = 3
    /\ pages[1].width < pages[2].width
    /\ pages[2].width < pages[3].width
    /\ Len(stream.objects) = 12
    /\ stream.ofs > 90000

=============================================================================
